---- MODULE Spec2Model ----
(***************************************************************************)
(* A model of flopy's MODPATH basic package writer, ModpathBas             *)
(* (activities_csiro/notebooks/flopy/modpath/mpbas.py): the constructor    *)
(* __init__ and the serializer write_file, statement by statement.         *)
(*                                                                         *)
(* Text is modelled as sequences of one-character strings, one sequence    *)
(* per line of the file, so that widths, padding and justification are     *)
(* computed and not assumed.  A floating-point value is modelled as a      *)
(* decimal with FracDigits fractional digits: [neg, ip, fp] stands for     *)
(* (-1)^neg * (ip + fp / 10^FracDigits).                                   *)
(*                                                                         *)
(* The exceptions modelled are those the program's own data raise          *)
(* (TypeError, IndexError, UnboundLocalError); failures of the operating   *)
(* system in open or write are not.  An exception leaves the file object   *)
(* as it is: nothing in write_file closes it but its last statement.       *)
(***************************************************************************)
EXTENDS Integers, Sequences, FiniteSets

VARIABLES
    mf,        \* the MODFLOW model behind the parent: grid dimensions and flow packages
    registry,  \* the parent's package list (names of the packages added)
    args,      \* the arguments of the constructor call
    pkg,       \* the attributes of the ModpathBas object
    pc,        \* the position inside __init__ / write_file ("idle" between calls)
    loc,       \* the locals of the running call: dims, i, lc
    file,      \* the target file self.fn_path: [exists, lines]
    handle,    \* the file object f_bas of the latest write_file call
    result,    \* how the latest write_file call ended
    entry,     \* history: the target file as it was when the latest call began
    prev       \* history: what the latest successful call before this one wrote

vars == <<mf, registry, args, pkg, pc, loc, file, handle, result, entry, prev>>

----------------------------------------------------------------------------
(* Bounds of the model. *)

\* the grids explored have at most MaxCells cells (nlay * nrow * ncol)
MaxCells == 3
\* def_face_ct, and the lengths of bud_label and def_iface, range over 0..MaxFace
MaxFace == 2

(* Constants of the program. *)

\* '{0:16.6f}': field width and precision of hnoflo and hdry
HeadWidth == 16
FracDigits == 6
\* '{0:4d}': field width of def_face_ct
FaceCtWidth == 4
\* '{0:20s}': field width of a budget label
LabelWidth == 20
\* '{0:2d}': field width of a default iface code
CodeWidth == 2
\* '(40I2)': values per line and field width of the layer-type line
LayFmtNpl == 40
LayFmtWidth == 2
\* unitnumber = 86
UnitNumber == 86

----------------------------------------------------------------------------
(* Text formatting, as Python's str.format does it. *)

DigitChars == <<"0", "1", "2", "3", "4", "5", "6", "7", "8", "9">>

RECURSIVE NatStr(_)
NatStr(n) ==
    IF n < 10 THEN <<DigitChars[n + 1]>>
    ELSE NatStr(n \div 10) \o <<DigitChars[(n % 10) + 1]>>

IntStr(v) == IF v < 0 THEN <<"-">> \o NatStr(-v) ELSE NatStr(v)

Fill(ch, n) == [k \in 1..n |-> ch]

\* right-justify in a field of width w; a longer text is never cut
RJust(s, w) == IF Len(s) >= w THEN s ELSE Fill(" ", w - Len(s)) \o s

\* left-justify in a field of width w; a longer text is never cut
LJust(s, w) == IF Len(s) >= w THEN s ELSE s \o Fill(" ", w - Len(s))

ZeroFill(s, w) == IF Len(s) >= w THEN s ELSE Fill("0", w - Len(s)) \o s

\* '{:<w>d}'
FmtD(v, w) == RJust(IntStr(v), w)

\* '{:<w>s}', and as it would be with '{:><w>s}'
FmtS_Right(s, w) == RJust(s, w)
FmtS(s, w) == LJust(s, w)

\* '{:<w>.<FracDigits>f}', and as it would be with a field one column wider
FmtF_Wide(x, w) ==
    RJust((IF x.neg THEN <<"-">> ELSE <<>>) \o NatStr(x.ip) \o <<".">>
          \o ZeroFill(NatStr(x.fp), FracDigits), w + 1)
FmtF(x, w) ==
    RJust((IF x.neg THEN <<"-">> ELSE <<>>) \o NatStr(x.ip) \o <<".">>
          \o ZeroFill(NatStr(x.fp), FracDigits), w)

Float(neg, ip, fp) == [neg |-> neg, ip |-> ip, fp |-> fp]

RECURSIVE Concat(_)
Concat(ss) == IF ss = <<>> THEN <<>> ELSE Head(ss) \o Concat(Tail(ss))

----------------------------------------------------------------------------
(* Values of the program. *)

None == [kind |-> "None"]
List(items) == [kind |-> "list", items |-> items]
IsNone(x) == x.kind = "None"

heading1 == <<"#"," ","M","P","B","A","S"," ","f","o","r"," ","M","o","d","p","a","t","h",","," ","g","e","n","e","r","a","t","e","d"," ","b","y"," ","F","l","o","p","y",".">>
heading2 == <<"#">>

\* the defaults of the constructor
hnofloDefault == Float(TRUE, 9999, 0)
hdryDefault == Float(TRUE, 8888, 0)
prsityDefault == Float(FALSE, 0, 300000)

Line(sec, text) == [sec |-> sec, text |-> text]

----------------------------------------------------------------------------
(* The collaborators: the MODFLOW model, Util3d and Util2d. *)

\* the packages write_file probes, in the order it probes them
FlowPackageNames == <<"BCF6", "LPF", "UPW">>

\* the per-layer integer array of a flow package; the three packages hold
\* different arrays, so that the file shows which one was read
LayerArray(name, nlay) ==
    IF name = "BCF6" THEN [k \in 1..nlay |-> 3 * (k % 2)]
    ELSE IF name = "LPF" THEN [k \in 1..nlay |-> 1]
    ELSE [k \in 1..nlay |-> 10 + k]

\* a flow package object, or None when the model has none of that name
FlowPackages(name, nlay) ==
    {None, [kind |-> name, layers |-> LayerArray(name, nlay)]}

\* mf.nrow_ncol_nlay_nper
nrow_ncol_nlay_nper(m) == <<m.nrow, m.ncol, m.nlay, m.nper>>

\* mf.get_package(name)
get_package(m, name) == m.packages[name]

\* BCF6 keeps its layer codes in laycon, LPF and UPW in laytyp
laycon(p) == p.layers
laytyp(p) == p.layers

\* Util3d(model, shape, dtype, value, name, locat): a scalar value fills the shape
Util3d(shape, dtype, value, name, locat) ==
    [kind |-> "Util3d", shape |-> shape, dtype |-> dtype, name |-> name,
     locat |-> locat,
     array |-> [l \in 1..shape[1] |-> [r \in 1..shape[2] |-> [c \in 1..shape[3] |-> value]]]]

\* the dimensions an array really has
ArrayShape(a) == <<Len(a), Len(a[1]), Len(a[1][1])>>

FmtValue(dtype, v) == IF dtype = "int32" THEN FmtD(v, 10) ELSE FmtF(v, 15)

\* Util3d.get_file_entry(): per layer a control line, then one record per row
get_file_entry(u, sec) ==
    Concat([l \in 1..Len(u.array) |->
        <<Line(sec, u.name \o <<" ","l","a","y","e","r"," ">> \o NatStr(l))>>
        \o [r \in 1..Len(u.array[l]) |->
              Line(sec, Concat([c \in 1..Len(u.array[l][r]) |->
                                  FmtValue(u.dtype, u.array[l][r][c])]))]])

\* Util2d(model, (nlay,), np.int32, value, name, locat)
Util2d(shape, value, locat) ==
    [bound |-> TRUE, shape |-> shape, value |-> value, locat |-> locat,
     fmtin |-> [name |-> "default"]]

\* the name lc before any assignment to it
Unbound == [bound |-> FALSE]

\* Util2d.set_fmtin('(40I2)')
set_fmtin(u) ==
    [u EXCEPT !.fmtin = [name |-> "(40I2)", npl |-> LayFmtNpl, width |-> LayFmtWidth]]

Min(a, b) == IF a <= b THEN a ELSE b

\* Util2d.string: the values in fields of fmtin.width, fmtin.npl to a line
Util2dString(u, sec) ==
    LET n == Len(u.value)
        npl == u.fmtin.npl
        nlines == (n + npl - 1) \div npl
    IN  [j \in 1..nlines |->
           Line(sec, Concat([k \in 1..(Min(j * npl, n) - (j - 1) * npl) |->
                               FmtD(u.value[(j - 1) * npl + k], u.fmtin.width)]))]

----------------------------------------------------------------------------
(* The inputs explored. *)

Grids ==
    {g \in (1..MaxCells) \X (1..MaxCells) \X (1..MaxCells) : g[1] * g[2] * g[3] <= MaxCells}

ModelsOn(g) ==
    {[nrow |-> g[1], ncol |-> g[2], nlay |-> g[3], nper |-> 1,
      packages |-> [BCF6 |-> b, LPF |-> l, UPW |-> u]] :
        b \in FlowPackages("BCF6", g[3]), l \in FlowPackages("LPF", g[3]),
        u \in FlowPackages("UPW", g[3])}

Models == UNION {ModelsOn(g) : g \in Grids}

LabelAt(k) ==
    IF k = 1 THEN <<"R","E","C","H","A","R","G","E">>
    ELSE IF k = 2 THEN <<"W","E","L","L","S">>
    ELSE <<"D","R","A","I","N","S">> \o NatStr(k)

CodeAt(k) == IF k = 1 THEN 6 ELSE IF k = 2 THEN 1 ELSE k

\* None, or the first n labels (codes) for n in 0..MaxFace
LabelArgs == {None} \cup {List([k \in 1..n |-> LabelAt(k)]) : n \in 0..MaxFace}
CodeArgs == {None} \cup {List([k \in 1..n |-> CodeAt(k)]) : n \in 0..MaxFace}

\* hnoflo, hdry, laytyp, ibound, prsity, prsityCB: the defaults, or other values
ValueArgs ==
    {<<hnofloDefault, hdryDefault, 0, 1, prsityDefault, prsityDefault>>,
     <<Float(FALSE, 12, 345600), Float(TRUE, 0, 5), 1, 0, Float(FALSE, 0, 250000),
       Float(FALSE, 1, 0)>>}

NoArgs == [kind |-> "none"]
NoLocals == [kind |-> "none"]
NoFile == [exists |-> FALSE, lines |-> <<>>]
OldFile == [exists |-> TRUE, lines |-> <<Line("old", <<"s","t","a","l","e">>)>>]

\* an object is the function from the names of its attributes to their values
NewObject == <<>>

\* self.a = v, for every field a of the record attrs
Assign(obj, attrs) ==
    [a \in DOMAIN obj \cup DOMAIN attrs |-> IF a \in DOMAIN attrs THEN attrs[a] ELSE obj[a]]

Init ==
    /\ mf \in Models
    /\ registry = <<>>
    /\ args = NoArgs
    /\ pkg = NewObject
    /\ pc = "new"
    /\ loc = NoLocals
    /\ file \in {NoFile, OldFile}
    /\ handle = "none"
    /\ result = "none"
    /\ entry = NoFile
    /\ prev = [has |-> FALSE, lines |-> <<>>]

----------------------------------------------------------------------------
(* ModpathBas.__init__ *)

\* Package.__init__(self, parent, extension, name, unit_number): the name and the
\* unit number are kept as one-element lists; the parent's package list is not touched
Package__init__(obj, name, unitnumber) ==
    Assign(obj, [name |-> <<name>>, unit_number |-> <<unitnumber>>])

\* line 75: the call, and Package.__init__(self, model, extension, 'MPBAS', unitnumber)
Init75 ==
    /\ pc = "new"
    /\ \E v \in ValueArgs, n \in 0..MaxFace, bl \in LabelArgs, di \in CodeArgs :
          args' = [hnoflo |-> v[1], hdry |-> v[2], def_face_ct |-> n, bud_label |-> bl,
                   def_iface |-> di, laytyp |-> v[3], ibound |-> v[4], prsity |-> v[5],
                   prsityCB |-> v[6], unitnumber |-> UnitNumber]
    /\ pkg' = Package__init__(pkg, "MPBAS", args'.unitnumber)
    /\ pc' = "init76"
    /\ UNCHANGED <<mf, registry, loc, file, handle, result, entry, prev>>

\* lines 76-77: nrow, ncol, nlay, nper = self.parent.mf.nrow_ncol_nlay_nper
Init76 ==
    /\ pc = "init76"
    /\ LET t == nrow_ncol_nlay_nper(mf)
       IN  loc' = [nrow |-> t[1], ncol |-> t[2], nlay |-> t[3], nper |-> t[4]]
    /\ pc' = "init78"
    /\ UNCHANGED <<mf, registry, args, pkg, file, handle, result, entry, prev>>

\* lines 78-85 as they would be with add_package called before the arrays are built
Init78_Registers ==
    /\ pc = "init78"
    /\ pkg' = Assign(pkg, [heading1 |-> heading1, heading2 |-> heading2,
                           hnoflo |-> args.hnoflo, hdry |-> args.hdry,
                           def_face_ct |-> args.def_face_ct,
                           bud_label |-> args.bud_label,
                           def_iface |-> args.def_iface,
                           laytyp |-> args.laytyp])
    /\ registry' = Append(registry, pkg.name[1])
    /\ pc' = "init86"
    /\ UNCHANGED <<mf, args, loc, file, handle, result, entry, prev>>

\* lines 78-85: the headings and the scalar attributes
Init78 ==
    /\ pc = "init78"
    /\ pkg' = Assign(pkg, [heading1 |-> heading1, heading2 |-> heading2,
                           hnoflo |-> args.hnoflo, hdry |-> args.hdry,
                           def_face_ct |-> args.def_face_ct,
                           bud_label |-> args.bud_label,
                           def_iface |-> args.def_iface,
                           laytyp |-> args.laytyp])
    /\ pc' = "init86"
    /\ UNCHANGED <<mf, registry, args, loc, file, handle, result, entry, prev>>

\* the shape handed to Util3d: (nlay, nrow, ncol), and as it would be handed
\* over in the order the dimensions are read, (nrow, ncol, nlay)
GridShape_RowFirst(l) == <<l.nrow, l.ncol, l.nlay>>
GridShape(l) == <<l.nlay, l.nrow, l.ncol>>

\* lines 86-87: self.ibound = Util3d(model, (nlay, nrow, ncol), np.int32, ibound, ...)
Init86 ==
    /\ pc = "init86"
    /\ pkg' = Assign(pkg, [ibound |-> Util3d(GridShape(loc), "int32", args.ibound,
                                            <<"i","b","o","u","n","d">>,
                                            pkg.unit_number[1])])
    /\ pc' = "init89"
    /\ UNCHANGED <<mf, registry, args, loc, file, handle, result, entry, prev>>

\* lines 89-90: self.prsity = prsity; self.prsityCB = prsityCB
Init89 ==
    /\ pc = "init89"
    /\ pkg' = Assign(pkg, [prsity |-> [kind |-> "raw", value |-> args.prsity],
                           prsityCB |-> [kind |-> "raw", value |-> args.prsityCB]])
    /\ pc' = "init91"
    /\ UNCHANGED <<mf, registry, args, loc, file, handle, result, entry, prev>>

\* lines 91-92: self.prsity = Util3d(model, (nlay, nrow, ncol), np.float32, prsity, ...)
Init91 ==
    /\ pc = "init91"
    /\ pkg' = Assign(pkg, [prsity |-> Util3d(GridShape(loc), "float32", args.prsity,
                                            <<"p","r","s","i","t","y">>,
                                            pkg.unit_number[1])])
    /\ pc' = "init93"
    /\ UNCHANGED <<mf, registry, args, loc, file, handle, result, entry, prev>>

\* lines 93-94: self.prsityCB = Util3d(model, (nlay, nrow, ncol), np.float32, prsityCB, ...)
Init93 ==
    /\ pc = "init93"
    /\ pkg' = Assign(pkg, [prsityCB |-> Util3d(GridShape(loc), "float32", args.prsityCB,
                                              <<"p","r","s","i","t","y","C","B">>,
                                              pkg.unit_number[1])])
    /\ pc' = "init95"
    /\ UNCHANGED <<mf, registry, args, loc, file, handle, result, entry, prev>>

\* line 95: self.parent.add_package(self); the constructor returns
Init95 ==
    /\ pc = "init95"
    /\ registry' = Append(registry, pkg.name[1])
    /\ pc' = "idle"
    /\ loc' = NoLocals
    /\ UNCHANGED <<mf, args, pkg, file, handle, result, entry, prev>>

----------------------------------------------------------------------------
(* ModpathBas.write_file *)

\* f_bas.write(...): the lines are appended to the open file
Write(lines) == file' = [file EXCEPT !.lines = file.lines \o lines]

\* an exception leaves write_file: nothing after the raising statement runs
Raise(kind) ==
    /\ result' = kind
    /\ pc' = "idle"
    /\ loc' = NoLocals
    /\ UNCHANGED <<file, handle>>

\* lines 106-107: the call; nrow, ncol, nlay, nper = self.parent.mf.nrow_ncol_nlay_nper
W106 ==
    /\ pc = "idle"
    /\ LET t == nrow_ncol_nlay_nper(mf)
       IN  loc' = [nrow |-> t[1], ncol |-> t[2], nlay |-> t[3], nper |-> t[4],
                   i |-> 0, lc |-> Unbound]
    /\ entry' = file
    /\ prev' = IF result = "ok" THEN [has |-> TRUE, lines |-> file.lines] ELSE prev
    /\ result' = "running"
    /\ pc' = "w109"
    /\ UNCHANGED <<mf, registry, args, pkg, file, handle>>

\* line 109: f_bas = open(self.fn_path, 'w') creates the file or empties it
W109 ==
    /\ pc = "w109"
    /\ handle' = "open"
    /\ file' = [exists |-> TRUE, lines |-> <<>>]
    /\ pc' = "w110"
    /\ UNCHANGED <<mf, registry, args, pkg, loc, result, entry, prev>>

\* line 110: f_bas.write('#{0:s}\n#{1:s}\n'.format(self.heading1, self.heading2))
W110 ==
    /\ pc = "w110"
    /\ Write(<<Line("banner", <<"#">> \o pkg.heading1),
               Line("banner", <<"#">> \o pkg.heading2)>>)
    /\ pc' = "w111"
    /\ UNCHANGED <<mf, registry, args, pkg, loc, handle, result, entry, prev>>

\* '{0:16.6f} {1:16.6f}\n'.format(self.hnoflo, self.hdry)
HeadsLine(p) == FmtF(p.hnoflo, HeadWidth) \o <<" ">> \o FmtF(p.hdry, HeadWidth)

\* lines 111-112
W111 ==
    /\ pc = "w111"
    /\ Write(<<Line("heads", HeadsLine(pkg))>>)
    /\ pc' = "w113"
    /\ UNCHANGED <<mf, registry, args, pkg, loc, handle, result, entry, prev>>

\* lines 113-116: the def_face_ct line, then the loop is entered or skipped
W113 ==
    /\ pc = "w113"
    /\ Write(<<Line("def_face_ct", FmtD(pkg.def_face_ct, FaceCtWidth))>>)
    /\ pc' = IF pkg.def_face_ct > 0 THEN "w117" ELSE "w121"
    /\ UNCHANGED <<mf, registry, args, pkg, loc, handle, result, entry, prev>>

\* x[i] on a Python object: None is not subscriptable, a list checks its range
Subscript(x, i) ==
    IF IsNone(x) THEN [raises |-> "TypeError"]
    ELSE IF i >= Len(x.items) THEN [raises |-> "IndexError"]
    ELSE [raises |-> "no", value |-> x.items[i + 1]]

\* line 117 as it would be with the labels consumed by self.bud_label.pop(0)
W117_PopsLabel ==
    /\ pc = "w117"
    /\ LET x == Subscript(pkg.bud_label, 0)
       IN  \/ /\ x.raises = "no"
              /\ Write(<<Line("label", FmtS(x.value, LabelWidth))>>)
              /\ pkg' = Assign(pkg, [bud_label |-> List(Tail(pkg.bud_label.items))])
              /\ pc' = "w118"
              /\ UNCHANGED <<loc, handle, result>>
           \/ /\ x.raises # "no"
              /\ Raise(x.raises)
              /\ UNCHANGED pkg
    /\ UNCHANGED <<mf, registry, args, entry, prev>>

\* line 117: f_bas.write('{0:20s}\n'.format(self.bud_label[i]))
W117 ==
    /\ pc = "w117"
    /\ LET x == Subscript(pkg.bud_label, loc.i)
       IN  \/ /\ x.raises = "no"
              /\ Write(<<Line("label", FmtS(x.value, LabelWidth))>>)
              /\ pc' = "w118"
              /\ UNCHANGED <<loc, handle, result>>
           \/ /\ x.raises # "no"
              /\ Raise(x.raises)
    /\ UNCHANGED <<mf, registry, args, pkg, entry, prev>>

\* line 118: f_bas.write('{0:2d}\n'.format(self.def_iface[i])); then the next i
W118 ==
    /\ pc = "w118"
    /\ LET x == Subscript(pkg.def_iface, loc.i)
       IN  \/ /\ x.raises = "no"
              /\ Write(<<Line("code", FmtD(x.value, CodeWidth))>>)
              /\ loc' = [loc EXCEPT !.i = loc.i + 1]
              /\ pc' = IF loc.i + 1 < pkg.def_face_ct THEN "w117" ELSE "w121"
              /\ UNCHANGED <<handle, result>>
           \/ /\ x.raises # "no"
              /\ Raise(x.raises)
    /\ UNCHANGED <<mf, registry, args, pkg, entry, prev>>

\* lines 121-137 as they would be with LPF probed before BCF6
FlowPackageProbe_LPFFirst(m, nlay, locat) ==
    IF ~IsNone(get_package(m, "LPF"))
    THEN Util2d(<<nlay>>, laytyp(get_package(m, "LPF")), locat)
    ELSE IF ~IsNone(get_package(m, "BCF6"))
    THEN Util2d(<<nlay>>, laycon(get_package(m, "BCF6")), locat)
    ELSE IF ~IsNone(get_package(m, "UPW"))
    THEN Util2d(<<nlay>>, laytyp(get_package(m, "UPW")), locat)
    ELSE Unbound

\* lines 121-137: lc from the first of BCF6, LPF, UPW the model has; no else branch
FlowPackageProbe(m, nlay, locat) ==
    IF ~IsNone(get_package(m, "BCF6"))
    THEN Util2d(<<nlay>>, laycon(get_package(m, "BCF6")), locat)
    ELSE IF ~IsNone(get_package(m, "LPF"))
    THEN Util2d(<<nlay>>, laytyp(get_package(m, "LPF")), locat)
    ELSE IF ~IsNone(get_package(m, "UPW"))
    THEN Util2d(<<nlay>>, laytyp(get_package(m, "UPW")), locat)
    ELSE Unbound

W121 ==
    /\ pc = "w121"
    /\ loc' = [loc EXCEPT !.lc = FlowPackageProbe(mf, loc.nlay, pkg.unit_number[1])]
    /\ pc' = "w139"
    /\ UNCHANGED <<mf, registry, args, pkg, file, handle, result, entry, prev>>

\* line 139: lc.set_fmtin('(40I2)'); lc is unbound when no flow package was found
W139 ==
    /\ pc = "w139"
    /\ \/ /\ loc.lc.bound
          /\ loc' = [loc EXCEPT !.lc = set_fmtin(loc.lc)]
          /\ pc' = "w140"
          /\ UNCHANGED <<file, handle, result>>
       \/ /\ ~loc.lc.bound
          /\ Raise("UnboundLocalError")
    /\ UNCHANGED <<mf, registry, args, pkg, entry, prev>>

\* line 140: f_bas.write(lc.string)
W140 ==
    /\ pc = "w140"
    /\ Write(Util2dString(loc.lc, "laytype"))
    /\ pc' = "w142"
    /\ UNCHANGED <<mf, registry, args, pkg, loc, handle, result, entry, prev>>

\* line 142: f_bas.write(self.ibound.get_file_entry())
W142 ==
    /\ pc = "w142"
    /\ Write(get_file_entry(pkg.ibound, "ibound"))
    /\ pc' = "w145"
    /\ UNCHANGED <<mf, registry, args, pkg, loc, handle, result, entry, prev>>

\* line 145 as it would be with the confining-bed array written in place of prsity
W145_WritesConfiningBed ==
    /\ pc = "w145"
    /\ Write(get_file_entry(pkg.prsityCB, "prsityCB"))
    /\ pc' = "w146"
    /\ UNCHANGED <<mf, registry, args, pkg, loc, handle, result, entry, prev>>

\* line 145: f_bas.write(self.prsity.get_file_entry())
W145 ==
    /\ pc = "w145"
    /\ Write(get_file_entry(pkg.prsity, "prsity"))
    /\ pc' = "w146"
    /\ UNCHANGED <<mf, registry, args, pkg, loc, handle, result, entry, prev>>

\* line 146: f_bas.write(self.prsityCB.get_file_entry())
W146 ==
    /\ pc = "w146"
    /\ Write(get_file_entry(pkg.prsityCB, "prsityCB"))
    /\ pc' = "w148"
    /\ UNCHANGED <<mf, registry, args, pkg, loc, handle, result, entry, prev>>

\* line 148: f_bas.close(); write_file returns
W148 ==
    /\ pc = "w148"
    /\ handle' = "closed"
    /\ result' = "ok"
    /\ pc' = "idle"
    /\ loc' = NoLocals
    /\ UNCHANGED <<mf, registry, args, pkg, file, entry, prev>>

----------------------------------------------------------------------------

Next ==
    \/ Init75 \/ Init76 \/ Init78 \/ Init86 \/ Init89 \/ Init91 \/ Init93 \/ Init95
    \/ W106 \/ W109 \/ W110 \/ W111 \/ W113 \/ W117 \/ W118 \/ W121 \/ W139
    \/ W140 \/ W142 \/ W145 \/ W146 \/ W148

Spec == Init /\ [][Next]_vars

----------------------------------------------------------------------------
(* What the properties below speak of. *)

InitPcs == {"new", "init76", "init78", "init86", "init89", "init91", "init93", "init95"}

\* the constructor has returned
Constructed == pc \notin InitPcs

\* a write_file call has ended, one way or the other
Ended == pc = "idle" /\ result \notin {"none", "running"}

\* a write_file call has returned normally
Succeeded == pc = "idle" /\ result = "ok"

NoFlowPackage(m) == \A k \in 1..Len(FlowPackageNames) : IsNone(m.packages[FlowPackageNames[k]])

\* def_face_ct is 0, or bud_label and def_iface are sequences of def_face_ct elements
FacesMatch(a) ==
    \/ a.def_face_ct = 0
    \/ /\ ~IsNone(a.bud_label)
       /\ ~IsNone(a.def_iface)
       /\ Len(a.bud_label.items) = a.def_face_ct
       /\ Len(a.def_iface.items) = a.def_face_ct

Group(sec) == IF sec \in {"label", "code"} THEN "faces" ELSE sec

SectionOrder ==
    <<"banner", "heads", "def_face_ct", "faces", "laytype", "ibound", "prsity", "prsityCB">>

Rank(sec) == CHOOSE k \in 1..Len(SectionOrder) : SectionOrder[k] = Group(sec)

\* the sections of the lines, each run of lines of one section counted once
RECURSIVE Runs(_)
Runs(lines) ==
    IF lines = <<>> THEN <<>>
    ELSE IF Len(lines) > 1 /\ Group(lines[1].sec) = Group(lines[2].sec) THEN Runs(Tail(lines))
    ELSE <<Group(lines[1].sec)>> \o Runs(Tail(lines))

CountSec(lines, sec) == Cardinality({k \in DOMAIN lines : lines[k].sec = sec})

\* the lines of one section, in the order they stand in the file
SecLines(lines, sec) == LET InSec(l) == l.sec = sec IN SelectSeq(lines, InSec)

\* attribute a of the object is set, and is a built grid array
IsUtil3d(obj, a) == a \in DOMAIN obj /\ obj[a].kind = "Util3d"

\* the attributes __init__ sets from its arguments
AllAttributes ==
    {"hnoflo", "hdry", "def_face_ct", "bud_label", "def_iface", "laytyp",
     "ibound", "prsity", "prsityCB"}

----------------------------------------------------------------------------
(* C1: with none of BCF6, LPF, UPW registered (and well-formed faces), a   *)
(* write_file call ends with MissingDependencyError and the target file is *)
(* what it was when the call began: not created, or untouched.             *)
C1_NoFlowPackageFailsCleanly ==
    (Ended /\ NoFlowPackage(mf) /\ FacesMatch(pkg))
        => (result = "MissingDependencyError" /\ file = entry)

(* C2: whenever a write_file call has ended, normally or by an exception,  *)
(* the file handle it opened is no longer open.                            *)
C2_HandleReleasedOnEveryExit == Ended => handle # "open"

(* C3: the sections of the file are written in the fixed order banner,     *)
(* hnoflo/hdry, def_face_ct, labels and codes (only if def_face_ct > 0),   *)
(* layer types, ibound, prsity, prsityCB: never a section before an        *)
(* earlier one, and after a successful call each of them exactly once      *)
(* (two banner lines, one line each for the heads and for def_face_ct,     *)
(* def_face_ct labels and codes, one rendering of each array).             *)
C3_SectionsInFixedOrder ==
    /\ handle # "none" =>
          \A i \in 1..(Len(file.lines) - 1) :
              Rank(file.lines[i].sec) <= Rank(file.lines[i + 1].sec)
    /\ Succeeded =>
          /\ Runs(file.lines) =
                <<"banner", "heads", "def_face_ct">>
                \o (IF pkg.def_face_ct > 0 THEN <<"faces">> ELSE <<>>)
                \o <<"laytype", "ibound", "prsity", "prsityCB">>
          /\ CountSec(file.lines, "banner") = 2
          /\ CountSec(file.lines, "heads") = 1
          /\ CountSec(file.lines, "def_face_ct") = 1
          /\ CountSec(file.lines, "label") = pkg.def_face_ct
          /\ CountSec(file.lines, "code") = pkg.def_face_ct
          /\ CountSec(file.lines, "laytype") = (mf.nlay + LayFmtNpl - 1) \div LayFmtNpl
          /\ \A a \in {"ibound", "prsity", "prsityCB"} :
                SecLines(file.lines, a) = get_file_entry(pkg[a], a)

C3_Witness == Succeeded /\ pkg.def_face_ct > 0 /\ mf.nlay > 1

(* C4: a constructor call with def_face_ct > 0 and bud_label or def_iface  *)
(* absent or of another length fails at construction: the constructor      *)
(* never returns an object and nothing is registered with the parent.      *)
C4_BadFacesRejectedAtConstruction ==
    (pc # "new" /\ ~FacesMatch(args)) => (~Constructed /\ registry = <<>>)

(* C5: after a successful call with def_face_ct = n and n labels and n     *)
(* codes, lines 5 .. 4+2n of the file (between the def_face_ct line and    *)
(* the layer-type line) are, for i = 1..n in order, bud_label[i] left-     *)
(* justified in 20 columns and then def_iface[i] right-justified in 2;     *)
(* there are no other label or code lines; for n = 0 there are none.       *)
C5_LabelAndCodeLines ==
    (Succeeded /\ FacesMatch(pkg)) =>
        LET n == pkg.def_face_ct
            L == file.lines
        IN  /\ L[4].sec = "def_face_ct"
            /\ L[5 + 2 * n].sec = "laytype"
            /\ CountSec(L, "label") = n
            /\ CountSec(L, "code") = n
            /\ \A i \in 1..n :
                  LET lab == pkg.bud_label.items[i]
                      cod == pkg.def_iface.items[i]
                      ll == L[3 + 2 * i]
                      cl == L[4 + 2 * i]
                  IN  /\ ll.sec = "label"
                      /\ Len(ll.text) = LabelWidth
                      /\ SubSeq(ll.text, 1, Len(lab)) = lab
                      /\ \A k \in (Len(lab) + 1)..LabelWidth : ll.text[k] = " "
                      /\ cl.sec = "code"
                      /\ cl.text = (IF cod < 10 THEN <<" ">> ELSE <<>>) \o NatStr(cod)
            /\ (n = 2 /\ pkg.bud_label.items[1] = <<"R","E","C","H","A","R","G","E">>
                      /\ pkg.bud_label.items[2] = <<"W","E","L","L","S">>
                      /\ pkg.def_iface.items = <<6, 1>>) =>
                  [k \in 1..4 |-> L[4 + k].text] =
                     << <<"R","E","C","H","A","R","G","E"," "," "," "," "," "," "," "," "," "," "," "," ">>,
                        <<" ","6">>,
                        <<"W","E","L","L","S"," "," "," "," "," "," "," "," "," "," "," "," "," "," "," ">>,
                        <<" ","1">> >>

C5_Witness == Succeeded /\ pkg.def_face_ct = 2 /\ FacesMatch(pkg)

C5_WitnessNoFaces == Succeeded /\ pkg.def_face_ct = 0 /\ ~IsNone(pkg.bud_label)

(* C6: after a successful call the layer-type line holds, one 2-column     *)
(* field per layer, the array of the first package the model has among     *)
(* BCF6 (laycon), LPF (laytyp), UPW (laytyp), in that order; the laytyp    *)
(* given to the constructor plays no part.                                 *)
C6_LayerTypeFromFirstFlowPackage ==
    Succeeded =>
        LET src == IF ~IsNone(mf.packages.BCF6) THEN mf.packages.BCF6
                   ELSE IF ~IsNone(mf.packages.LPF) THEN mf.packages.LPF
                   ELSE mf.packages.UPW
            at == CHOOSE k \in DOMAIN file.lines : file.lines[k].sec = "laytype"
            text == file.lines[at].text
        IN  /\ ~NoFlowPackage(mf)
            /\ CountSec(file.lines, "laytype") = 1
            /\ Len(text) = LayFmtWidth * mf.nlay
            /\ \A k \in 1..mf.nlay :
                  SubSeq(text, LayFmtWidth * (k - 1) + 1, LayFmtWidth * k)
                      = RJust(IntStr(src.layers[k]), LayFmtWidth)

\* BCF6 and a lower-priority package are both registered, and laytyp is not the default
C6_Witness ==
    Succeeded /\ ~IsNone(mf.packages.BCF6) /\ ~IsNone(mf.packages.LPF) /\ pkg.laytyp = 1

(* C7, as claimed: with hnoflo = -9999.0 and hdry = -8888.0 the second     *)
(* line of the written file is "     -9999.000000      -8888.000000"       *)
(* (5 leading spaces, 6 between the numbers).                              *)
C7_SecondLineAsClaimed ==
    (Succeeded /\ pkg.hnoflo = hnofloDefault /\ pkg.hdry = hdryDefault) =>
        file.lines[2].text =
            <<" "," "," "," "," ","-","9","9","9","9",".","0","0","0","0","0","0"," "," "," "," "," "," ","-","8","8","8","8",".","0","0","0","0","0","0">>

(* C7, amended: with hnoflo = -9999.0 and hdry = -8888.0 the third line of *)
(* the written file, the first after the two banner lines, is              *)
(* "    -9999.000000     -8888.000000": two fields of width 16 with one    *)
(* space between them (4 leading spaces, 5 between the numbers); no line   *)
(* of the file is the text with 5 and 6 spaces.                            *)
C7_ThirdLineIsHeadsLine ==
    (Succeeded /\ pkg.hnoflo = hnofloDefault /\ pkg.hdry = hdryDefault) =>
        /\ file.lines[1].sec = "banner"
        /\ file.lines[2].sec = "banner"
        /\ file.lines[3].sec = "heads"
        /\ file.lines[3].text =
            <<" "," "," "," ","-","9","9","9","9",".","0","0","0","0","0","0"," "," "," "," "," ","-","8","8","8","8",".","0","0","0","0","0","0">>
        /\ \A k \in DOMAIN file.lines : file.lines[k].text #
            <<" "," "," "," "," ","-","9","9","9","9",".","0","0","0","0","0","0"," "," "," "," "," "," ","-","8","8","8","8",".","0","0","0","0","0","0">>

C7_Witness == Succeeded /\ pkg.hnoflo = hnofloDefault /\ pkg.hdry = hdryDefault

(* C8: once built, each of ibound, prsity, prsityCB has the shape          *)
(* (nlay, nrow, ncol) of the parent's grid, as its shape attribute and as  *)
(* the dimensions of its array; from the constructor's return on all three *)
(* are built, through every write_file call.                               *)
C8_ArraysShareGridShape ==
    /\ \A a \in {"ibound", "prsity", "prsityCB"} :
          IsUtil3d(pkg, a) =>
              /\ pkg[a].shape = <<mf.nlay, mf.nrow, mf.ncol>>
              /\ ArrayShape(pkg[a].array) = <<mf.nlay, mf.nrow, mf.ncol>>
    /\ Constructed => \A a \in {"ibound", "prsity", "prsityCB"} : IsUtil3d(pkg, a)

C8_Witness == Succeeded /\ prev.has /\ mf.nlay > mf.nrow /\ mf.nrow = mf.ncol

(* C9: the parent's registry holds the package at most once, holds it      *)
(* exactly once from the constructor's return on, and never holds it while *)
(* a scalar attribute is unset or one of the three arrays is not built.    *)
C9_RegisteredLastAndOnce ==
    /\ registry \in {<<>>, <<"MPBAS">>}
    /\ Constructed => registry = <<"MPBAS">>
    /\ registry # <<>> =>
          /\ AllAttributes \subseteq DOMAIN pkg
          /\ \A a \in {"ibound", "prsity", "prsityCB"} : IsUtil3d(pkg, a)

C9_Witness == pc = "idle" /\ result = "none" /\ registry = <<"MPBAS">>

(* C10: no step of write_file changes an attribute of the package, the     *)
(* parent's registry or the model, and a successful call writes what the   *)
(* successful call before it wrote.                                        *)
C10_WriteFileChangesNoState ==
    /\ [][Constructed => (pkg' = pkg /\ registry' = registry /\ mf' = mf)]_vars
    /\ [](Succeeded /\ prev.has => file.lines = prev.lines)

C10_Witness == Succeeded /\ prev.has /\ pkg.def_face_ct > 0

====
